---- MODULE Spec2Model ----
(***************************************************************************)
(* Face-detection demo (React): the live detection loop of WebcamCapture,  *)
(* the still-image analysis of ImageUpload, the session aggregator and     *)
(* timer of App and the narration trigger of VoiceDescription, with the    *)
(* browser collaborators they call (requestAnimationFrame, getUserMedia,   *)
(* the BlazeFace detector, the canvas and speechSynthesis).                *)
(*                                                                         *)
(* JavaScript runs one task at a time, so every action below is one task:  *)
(* a click handler together with the synchronous re-render and effects     *)
(* React runs for a discrete event, one animation-frame callback up to its *)
(* await, or one promise continuation.  A state update made in a promise   *)
(* continuation is committed at once, but the effect that depends on it    *)
(* runs in a later task (effectPending).                                   *)
(***************************************************************************)
EXTENDS Integers, Sequences, FiniteSets, TLC

\* ---------------------------------------------------------------- bounds
MaxTime == 134        \* the clock stops advancing here
MaxLoops == 2         \* callback chains of detectFaces alive at once
MaxGum == 1           \* getUserMedia requests outstanding at once
MaxFaces == 2         \* faces in one detector result
MaxLoopFaces == 1     \* faces in one detector result of the live loop
MaxDetections == 2    \* batches handed to the aggregator by BatchArrives
MaxStale == 2         \* callbacks of cancelled utterances not yet delivered
MaxSession == 2       \* seconds the session timer counts
MaxRenderFaces == 5   \* faces in one detector result of the rendering runs
MaxImageCalls == 2    \* detectFacesInImage calls in flight at once
MaxFpsTime == 2144    \* the clock of the frame-rate runs stops advancing here
MaxLiveTime == 335     \* the clock of the liveness runs stops advancing here
MaxRateTime == 1122    \* the clock of the rate runs stops advancing here
MaxSpread == 2        \* how far the probed box centres lie from a boundary

\* ------------------------------------------------------ program constants
MinInterval == 67     \* throttle gate of detectFaces
FpsEvery == 15        \* the frame rate is republished every 15th cycle
FrameWidth == 640     \* frame size getPositionDescription assumes
FrameHeight == 480
IdealWidth == 1280    \* resolution startWebcam asks getUserMedia for
IdealHeight == 720

\* The display's frame period is not fixed by the code: the clock advances
\* by one of these amounts between tasks (33+33 < 67 <= 33+34).
TickSteps == {33, 34}

\* The frame-rate runs cover thirty-two detection cycles: there the clock
\* advances by one throttle interval between tasks.
SlowSteps == {MinInterval}

\* The rate runs cover sixteen detection cycles with frame callbacks between
\* them: one step stays below the throttle interval, two steps pass it.
RateSteps == {34}

Loops == 1..MaxLoops

\* Faces are records as in the Face interface; probability is kept in
\* thousandths so that Math.round(probability * 100) is integer arithmetic.
SampleFaces ==
  { [topLeft |-> <<10, 10>>, bottomRight |-> <<60, 80>>, probability |-> 950],
    [topLeft |-> <<600, 340>>, bottomRight |-> <<680, 380>>, probability |-> 904] }

RECURSIVE SeqsUpTo(_, _)
SeqsUpTo(S, n) ==
  IF n = 0 THEN { <<>> }
  ELSE LET shorter == SeqsUpTo(S, n - 1)
       IN shorter \cup { Append(s, x) : s \in { t \in shorter : Len(t) = n - 1 }, x \in S }

\* What model.estimateFaces can resolve with.
Batches == SeqsUpTo(SampleFaces, MaxFaces)

\* What model.estimateFaces resolves with in the runs of the live loop,
\* where the number of faces matters and not which faces they are.
LoopBatches ==
  SeqsUpTo({ f \in SampleFaces : f.probability = 950 }, MaxLoopFaces)

\* Detector results long enough for the hues to pass 360.
RenderBatches ==
  SeqsUpTo({ f \in SampleFaces : f.probability = 950 }, MaxRenderFaces)

\* A 50x70 box around the centre (cx, cy), as the first sample face is.
BoxAt(cx, cy) ==
  [topLeft |-> <<cx - 25, cy - 35>>, bottomRight |-> <<cx + 25, cy + 35>>,
   probability |-> 950]

\* Centres on both sides of the boundaries between the thirds of the frame.
CentreXs ==
  { x \in 0..FrameWidth : \/ x - 211 \in -MaxSpread..MaxSpread
                          \/ x - 429 \in -MaxSpread..MaxSpread }
CentreYs ==
  { y \in 0..FrameHeight : \/ y - 159 \in -MaxSpread..MaxSpread
                           \/ y - 321 \in -MaxSpread..MaxSpread }

\* Detector results with one face: near a boundary, where the first sample
\* face is, or in the middle of a frame of the ideal resolution.
PositionBatches ==
  { << BoxAt(x, 45) >> : x \in CentreXs \cup {35} }
    \cup { << BoxAt(35, y) >> : y \in CentreYs }
    \cup { << BoxAt(211, 159) >>, << BoxAt(IdealWidth \div 2, IdealHeight \div 2) >> }

VARIABLES
  now,                \* performance.now()
  \* WebcamCapture
  model, isLoading, error, isStreaming, isRecording, faceCount, fps,
  srcObject,          \* videoRef.current.srcObject is a stream
  videoReady,         \* video.videoWidth > 0 and video.readyState = 4
  gumPending,         \* getUserMedia promises not yet settled
  effectPending,      \* the [isStreaming, model, detectFaces] effect has to run
  loop,               \* the callback chains of detectFaces
  animationFrameRef, lastDetectionTime, lastTimeRef, fpsCounterRef,
  overlay,            \* what is drawn on the canvas: the hues of the label badges
  canvasSized,        \* the canvas has the size of the video frame
  issued,             \* the times of the last two estimateFaces calls
  acceptedCycles,     \* how many callbacks passed the throttle gate
  \* App
  faces, detectionCount, voiceEnabled,
  averageConfidence,  \* StatsPanel: the constant its render computes from faces
  sessionTime,        \* seconds counted by the interval timer of App
  \* ImageUpload
  appModel,           \* the model prop: App's blazeface.load() succeeded
  selectedImage,      \* an image is selected (img and canvas are rendered)
  imageLoading,       \* the img element has not fired onLoad yet
  isProcessing, detectedFaces, analysisComplete,
  imageCalls,         \* detectFacesInImage calls at their await; attached: the
                      \* canvas the call captured is still the rendered one
  imageOverlay,       \* what is drawn on the rendered canvas of ImageUpload
  \* VoiceDescription
  speechApi,          \* 'speechSynthesis' in window
  videoSize,          \* videoWidth and videoHeight of the frames the camera gives
  speechSupported, isSpeaking, lastFaceCount, currentDescription,
  \* window.speechSynthesis
  utterances,         \* its queue; the head is the one that plays
  staleCallbacks,     \* end/error events of cancelled utterances, on their way
  \* what the last task was and which collaborators it called
  lastOp,
  estimateCalled,     \* it called model.estimateFaces
  batchDelivered,     \* it called onFaceDetected
  fpsPublished,       \* it called setFps
  labelDraws,         \* the hues of the label badges it drew
  speakCalled,        \* it called speechSynthesis.speak
  cancelled           \* the utterances its speechSynthesis.cancel() removed

webcamVars == <<model, isLoading, error, isStreaming, isRecording, faceCount, fps,
                srcObject, videoReady, gumPending, effectPending, loop,
                animationFrameRef, lastDetectionTime, lastTimeRef, fpsCounterRef,
                overlay, canvasSized, issued, acceptedCycles>>
appVars == <<faces, averageConfidence, detectionCount, voiceEnabled, sessionTime>>
imageVars == <<appModel, selectedImage, imageLoading, isProcessing, detectedFaces,
               analysisComplete, imageCalls, imageOverlay>>
deviceVars == <<speechApi, videoSize>>
voiceVars == <<speechSupported, isSpeaking, lastFaceCount, currentDescription>>
speechVars == <<utterances, staleCallbacks>>
obsVars == <<estimateCalled, batchDelivered, fpsPublished, labelDraws, speakCalled,
             cancelled>>
vars == <<now, webcamVars, appVars, imageVars, deviceVars, voiceVars, speechVars, lastOp,
          obsVars>>

NoError == "null"
IdleLoop == [st |-> "idle", isStreaming |-> FALSE, model |-> FALSE, stopped |-> FALSE]

\* ------------------------------------------------------------ pure helpers
Abs(x) == IF x < 0 THEN -x ELSE x

\* Math.round(p * 100) for a probability of m thousandths.
RoundPercent(m) == (m + 5) \div 10

RECURSIVE SumProbability(_)
SumProbability(fs) ==
  IF fs = <<>> THEN 0 ELSE Head(fs).probability + SumProbability(Tail(fs))

\* Math.round(sum / length * 100)
AvgConfidence(fs) == (2 * SumProbability(fs) + 10 * Len(fs)) \div (20 * Len(fs))

\* Mutant: the centre is compared with the thirds of the frame the camera
\* delivers.
getPositionDescriptionOfVideo(face) ==
  LET cx2 == face.topLeft[1] + face.bottomRight[1]
      cy2 == face.topLeft[2] + face.bottomRight[2]
      horizontal == IF 100 * cx2 < 2 * 33 * videoSize[1] THEN "left"
                    ELSE IF 100 * cx2 > 2 * 67 * videoSize[1] THEN "right"
                    ELSE "center"
      vertical == IF 100 * cy2 < 2 * 33 * videoSize[2] THEN "upper"
                  ELSE IF 100 * cy2 > 2 * 67 * videoSize[2] THEN "lower"
                  ELSE "middle"
  IN <<vertical, horizontal>>

\* Mutant: the boundaries are 211 and 160, and their mirror images.
getPositionDescriptionThirds(face) ==
  LET cx2 == face.topLeft[1] + face.bottomRight[1]
      cy2 == face.topLeft[2] + face.bottomRight[2]
      horizontal == IF cx2 < 2 * 211 THEN "left"
                    ELSE IF cx2 > 2 * (FrameWidth - 211) THEN "right"
                    ELSE "center"
      vertical == IF cy2 < 2 * 160 THEN "upper"
                  ELSE IF cy2 > 2 * (FrameHeight - 160) THEN "lower"
                  ELSE "middle"
  IN <<vertical, horizontal>>

\* getPositionDescription: the centre against 0.33 and 0.67 of 640x480.
\* Both sides are scaled by 200 to stay in the integers.
getPositionDescription(face) ==
  LET cx2 == face.topLeft[1] + face.bottomRight[1]
      cy2 == face.topLeft[2] + face.bottomRight[2]
      horizontal == IF 100 * cx2 < 2 * 33 * FrameWidth THEN "left"
                    ELSE IF 100 * cx2 > 2 * 67 * FrameWidth THEN "right"
                    ELSE "center"
      vertical == IF 100 * cy2 < 2 * 33 * FrameHeight THEN "upper"
                  ELSE IF 100 * cy2 > 2 * 67 * FrameHeight THEN "lower"
                  ELSE "middle"
  IN <<vertical, horizontal>>

Text(kind, count, confidence, position, details) ==
  [kind |-> kind, count |-> count, confidence |-> confidence,
   position |-> position, details |-> details]

NoText == Text("", 0, 0, <<>>, <<>>)

\* Mutant: for several faces the sum of the confidences is not divided by
\* their number.
DescriptionSum(fs) ==
  IF Len(fs) = 0 THEN Text("no faces", 0, 0, <<>>, <<>>)
  ELSE IF Len(fs) = 1
    THEN Text("one face", 1, RoundPercent(fs[1].probability),
              getPositionDescription(fs[1]), <<>>)
    ELSE Text("faces", Len(fs), RoundPercent(SumProbability(fs)), <<>>, <<>>)

\* The description the narration effect composes for a batch.
Description(fs) ==
  IF Len(fs) = 0 THEN Text("no faces", 0, 0, <<>>, <<>>)
  ELSE IF Len(fs) = 1
    THEN Text("one face", 1, RoundPercent(fs[1].probability),
              getPositionDescription(fs[1]), <<>>)
    ELSE Text("faces", Len(fs), AvgConfidence(fs), <<>>, <<>>)

Quality(confidence) ==
  IF confidence >= 95 THEN "excellent" ELSE IF confidence >= 80 THEN "good" ELSE "fair"

getDetailedDescription(fs) ==
  IF Len(fs) = 0 THEN Text("detailed no faces", 0, 0, <<>>, <<>>)
  ELSE Text("detailed", Len(fs), AvgConfidence(fs), <<>>,
            [i \in 1..Len(fs) |->
               [position |-> getPositionDescription(fs[i]),
                confidence |-> RoundPercent(fs[i].probability),
                width |-> fs[i].bottomRight[1] - fs[i].topLeft[1],
                height |-> fs[i].bottomRight[2] - fs[i].topLeft[2],
                quality |-> Quality(RoundPercent(fs[i].probability))]])

\* Mutant: the mean is rounded down.
MeanConfidenceFloor(fs) ==
  IF Len(fs) > 0 THEN SumProbability(fs) \div (10 * Len(fs)) ELSE 0

\* StatsPanel: Math.round(sum / faces.length * 100), or 0 without faces.
MeanConfidence(fs) ==
  IF Len(fs) > 0
  THEN (2 * SumProbability(fs) + 10 * Len(fs)) \div (20 * Len(fs))
  ELSE 0

\* Mutant: the hue is reduced to an angle below 360.
HueWrapped(i) == (120 + i * 60) % 360

\* The hue of the face at 0-based index i.
Hue(i) == 120 + i * 60

\* The label badges faces.forEach draws, one per face, by their hues.
Drawn(fs) == [i \in 1..Len(fs) |-> Hue(i - 1)]

\* ctx.clearRect(0, 0, canvas.width, canvas.height): nothing stays drawn.
clearRect(surface) == <<>>

\* Math.round(1000 / delta)
RoundFps(delta) == (2000 + delta) \div (2 * delta)

\* ------------------------------------------------------------------- Init
\* The resolutions a camera delivers: the ideal one, or the 640x480 of a
\* camera that cannot.
VideoSizes == { <<IdealWidth, IdealHeight>>, <<FrameWidth, FrameHeight>> }

\* The state after the first render, in front of a camera of one of `sizes`.
InitWith(sizes) ==
  /\ now = 0
  /\ model = FALSE /\ isLoading = TRUE /\ error = NoError
  /\ isStreaming = FALSE /\ isRecording = FALSE /\ faceCount = 0 /\ fps = 0
  /\ srcObject = FALSE /\ videoReady = FALSE
  /\ gumPending = 0 /\ effectPending = FALSE
  /\ loop = [g \in Loops |-> IdleLoop]
  /\ animationFrameRef = 0
  /\ lastDetectionTime = 0 /\ lastTimeRef = 0 /\ fpsCounterRef = 0
  /\ overlay = <<>> /\ canvasSized = FALSE /\ issued = <<>> /\ acceptedCycles = 0
  /\ faces = <<>> /\ detectionCount = 0 /\ voiceEnabled = TRUE
  /\ averageConfidence = 0
  /\ sessionTime = 0
  /\ appModel \in BOOLEAN
  /\ selectedImage = FALSE /\ imageLoading = FALSE /\ isProcessing = FALSE
  /\ detectedFaces = <<>> /\ analysisComplete = FALSE
  /\ imageCalls = <<>> /\ imageOverlay = <<>>
  /\ speechApi \in BOOLEAN
  /\ videoSize \in sizes
  /\ speechSupported = speechApi
  /\ isSpeaking = FALSE /\ lastFaceCount = 0 /\ currentDescription = NoText
  /\ utterances = <<>> /\ staleCallbacks = 0
  /\ lastOp = "init"
  /\ estimateCalled = FALSE /\ batchDelivered = FALSE /\ fpsPublished = FALSE
  /\ labelDraws = <<>>
  /\ speakCalled = FALSE /\ cancelled = 0

\* The camera honours the ideal constraints.
Init == InitWith({ <<IdealWidth, IdealHeight>> })

\* The camera is any of VideoSizes.
InitAnyCamera == InitWith(VideoSizes)

\* ----------------------------------------------- VoiceDescription, speech
LiveCount(q) == Cardinality({ i \in 1..Len(q) : q[i].live })

\* speechSynthesis.cancel() empties the queue; every removed utterance whose
\* component is still mounted gets its end/error event later.
SpeechCancel ==
  /\ cancelled' = Len(utterances)
  /\ staleCallbacks' = staleCallbacks + LiveCount(utterances)

\* Mutant: speak() without the cancel() before it.
speakDescriptionQueues(enabled, text, supported) ==
  IF ~enabled \/ ~supported
  THEN /\ UNCHANGED <<utterances, staleCallbacks, currentDescription, isSpeaking>>
       /\ speakCalled' = FALSE /\ cancelled' = 0
  ELSE /\ cancelled' = 0
       /\ utterances' = Append(utterances, [text |-> text, st |-> "pending", live |-> TRUE])
       /\ currentDescription' = text
       /\ speakCalled' = TRUE
       /\ UNCHANGED <<staleCallbacks, isSpeaking>>

\* Mutant: the dispatch clears isSpeaking together with the cancel().
speakDescriptionClears(enabled, text, supported) ==
  IF ~enabled \/ ~supported
  THEN /\ UNCHANGED <<utterances, staleCallbacks, currentDescription, isSpeaking>>
       /\ speakCalled' = FALSE /\ cancelled' = 0
  ELSE /\ SpeechCancel
       /\ isSpeaking' = FALSE
       /\ utterances' = << [text |-> text, st |-> "pending", live |-> TRUE] >>
       /\ currentDescription' = text
       /\ speakCalled' = TRUE

\* Mutant: the dispatch sets isSpeaking itself instead of leaving it to onstart.
speakDescriptionOptimistic(enabled, text, supported) ==
  IF ~enabled \/ ~supported
  THEN /\ UNCHANGED <<utterances, staleCallbacks, currentDescription, isSpeaking>>
       /\ speakCalled' = FALSE /\ cancelled' = 0
  ELSE /\ SpeechCancel
       /\ isSpeaking' = TRUE
       /\ utterances' = << [text |-> text, st |-> "pending", live |-> TRUE] >>
       /\ currentDescription' = text
       /\ speakCalled' = TRUE

\* Mutant: the dispatch does not ask whether speech synthesis is supported.
speakDescriptionUnguarded(enabled, text, supported) ==
  IF ~enabled
  THEN /\ UNCHANGED <<utterances, staleCallbacks, currentDescription, isSpeaking>>
       /\ speakCalled' = FALSE /\ cancelled' = 0
  ELSE /\ SpeechCancel
       /\ utterances' = << [text |-> text, st |-> "pending", live |-> TRUE] >>
       /\ currentDescription' = text
       /\ speakCalled' = TRUE
       /\ UNCHANGED isSpeaking

\* speakDescription(text): `enabled` is the prop and `supported` the
\* speechSupported that the closure captured.  isSpeaking is left to the
\* utterance's callbacks.
speakDescription(enabled, text, supported) ==
  IF ~enabled \/ ~supported
  THEN /\ UNCHANGED <<utterances, staleCallbacks, currentDescription, isSpeaking>>
       /\ speakCalled' = FALSE /\ cancelled' = 0
  ELSE /\ SpeechCancel
       /\ utterances' = << [text |-> text, st |-> "pending", live |-> TRUE] >>
       /\ currentDescription' = text
       /\ speakCalled' = TRUE
       /\ UNCHANGED isSpeaking

\* Mutant: the gate asks for a difference of more than one face.
NarrationEffectCoarse(enabled, fs, supported) ==
  IF enabled /\ Abs(Len(fs) - lastFaceCount) > 1
  THEN /\ speakDescription(enabled, Description(fs), supported)
       /\ lastFaceCount' = Len(fs)
  ELSE /\ UNCHANGED <<utterances, staleCallbacks, currentDescription, isSpeaking,
                      lastFaceCount>>
       /\ speakCalled' = FALSE /\ cancelled' = 0

\* The effect on [faces, enabled, lastFaceCount, speakDescription], run for
\* the face list fs; its re-run after setLastFaceCount finds no difference.
NarrationEffect(enabled, fs, supported) ==
  IF enabled /\ Abs(Len(fs) - lastFaceCount) >= 1
  THEN /\ speakDescription(enabled, Description(fs), supported)
       /\ lastFaceCount' = Len(fs)
  ELSE /\ UNCHANGED <<utterances, staleCallbacks, currentDescription, isSpeaking,
                      lastFaceCount>>
       /\ speakCalled' = FALSE /\ cancelled' = 0

\* Mutant: the counter counts faces instead of batches.
handleFaceDetectedCountsFaces(detected) ==
  /\ faces' = detected
  /\ detectionCount' = detectionCount + Len(detected)
  /\ averageConfidence' = MeanConfidence(detected)
  /\ batchDelivered' = TRUE
  /\ NarrationEffect(voiceEnabled, detected, speechSupported)
  /\ UNCHANGED <<voiceEnabled, sessionTime, speechSupported>>

\* App.handleFaceDetected, with the re-render of StatsPanel and of
\* VoiceDescription it causes.
handleFaceDetected(detected) ==
  /\ faces' = detected
  /\ detectionCount' = IF Len(detected) > 0 THEN detectionCount + 1
                        ELSE detectionCount
  /\ averageConfidence' = MeanConfidence(detected)
  /\ batchDelivered' = TRUE
  /\ NarrationEffect(voiceEnabled, detected, speechSupported)
  /\ UNCHANGED <<voiceEnabled, sessionTime, speechSupported>>

NoVoiceCalls == speakCalled' = FALSE /\ cancelled' = 0
NoLoopCalls ==
  /\ estimateCalled' = FALSE /\ batchDelivered' = FALSE /\ fpsPublished' = FALSE
  /\ labelDraws' = <<>>

\* ---------------------------------------------------------- WebcamCapture
gateVars == <<lastDetectionTime, lastTimeRef, fpsCounterRef, fps, issued, acceptedCycles>>
canvasVars == <<overlay, canvasSized>>
narrationVars == <<faces, averageConfidence, detectionCount, voiceEnabled, sessionTime,
                   speechSupported, isSpeaking,
                   lastFaceCount, currentDescription, utterances, staleCallbacks>>

\* The video and canvas elements are rendered only when !isLoading && !error,
\* so videoRef.current and canvasRef.current are null otherwise.
VideoMounted == ~isLoading /\ error = NoError

\* Every requestAnimationFrame call of the component stores its id in
\* animationFrameRef, so the ref always holds the id of the latest request,
\* named here by the chain that made it (0: undefined).  That request is
\* still pending exactly when its chain is "scheduled".
cancelAnimationFrame(lp, id) ==
  [g \in Loops |-> IF g = id /\ lp[g].st = "scheduled" THEN IdleLoop ELSE lp[g]]

\* loadModel, after blazeface.load() resolved.
LoadModelResolve ==
  /\ isLoading
  /\ model' = TRUE /\ isLoading' = FALSE
  /\ effectPending' = TRUE
  /\ lastOp' = "loadModel"
  /\ NoLoopCalls /\ NoVoiceCalls
  /\ UNCHANGED <<now, error, isStreaming, isRecording, faceCount, srcObject, videoReady,
                 gumPending, loop, animationFrameRef, canvasVars, gateVars,
                 deviceVars, narrationVars, imageVars>>

\* loadModel, its catch branch.
LoadModelReject ==
  /\ isLoading
  /\ error' = "Failed to load face detection model" /\ isLoading' = FALSE
  /\ lastOp' = "loadModel failed"
  /\ NoLoopCalls /\ NoVoiceCalls
  /\ UNCHANGED <<now, model, isStreaming, isRecording, faceCount, srcObject, videoReady,
                 gumPending, effectPending, loop, animationFrameRef, canvasVars, gateVars,
                 deviceVars, narrationVars, imageVars>>

\* startWebcam up to its await: the camera toggle (when not streaming), the
\* "Start Camera" button or the "Try Again" button of the error panel.
StartWebcam ==
  /\ (~isLoading /\ ~isStreaming) \/ error # NoError
  /\ gumPending < MaxGum
  /\ gumPending' = gumPending + 1
  /\ lastOp' = "startWebcam"
  /\ NoLoopCalls /\ NoVoiceCalls
  /\ UNCHANGED <<now, model, isLoading, error, isStreaming, isRecording, faceCount,
                 srcObject, videoReady, effectPending, loop, animationFrameRef, canvasVars,
                 gateVars, deviceVars, narrationVars, imageVars>>

\* startWebcam after getUserMedia resolved.  A newly attached stream has no
\* frame yet, and its frames may have another size than the canvas has.
GetUserMediaResolve ==
  /\ gumPending > 0
  /\ gumPending' = gumPending - 1
  /\ IF VideoMounted
     THEN /\ srcObject' = TRUE /\ videoReady' = FALSE
          /\ isStreaming' = TRUE /\ error' = NoError
          /\ effectPending' = (effectPending \/ ~isStreaming)
          /\ canvasSized' \in {canvasSized, FALSE}
     ELSE UNCHANGED <<srcObject, videoReady, isStreaming, error, effectPending,
                      canvasSized>>
  /\ lastOp' = "getUserMedia resolved"
  /\ NoLoopCalls /\ NoVoiceCalls
  /\ UNCHANGED <<now, model, isLoading, isRecording, faceCount, loop, animationFrameRef,
                 overlay, gateVars, deviceVars, narrationVars, imageVars>>

\* startWebcam, its catch branch.  The error panel replaces the video
\* element.  (React runs a pending effect before this re-render, so the
\* task is the same as LoopEffect followed by this one.)
GetUserMediaReject ==
  /\ gumPending > 0 /\ ~effectPending
  /\ gumPending' = gumPending - 1
  /\ error' = "Failed to access webcam. Please check permissions."
  /\ srcObject' = FALSE /\ videoReady' = FALSE
  /\ lastOp' = "getUserMedia rejected"
  /\ NoLoopCalls /\ NoVoiceCalls
  /\ UNCHANGED <<now, model, isLoading, isStreaming, isRecording, faceCount,
                 effectPending, loop, animationFrameRef, canvasVars, gateVars,
                 deviceVars, narrationVars, imageVars>>

\* The effect on [isStreaming, model, detectFaces]: the cleanup of its last
\* run, then its body.  The detectFaces it schedules is the closure of the
\* current render, which captured the current isStreaming and model.
LoopEffect ==
  /\ effectPending
  /\ effectPending' = FALSE
  /\ LET cleaned == cancelAnimationFrame(loop, animationFrameRef)
         free == { g \in Loops : cleaned[g].st = "idle" }
     IN IF isStreaming /\ model
        THEN /\ free # {}
             /\ LET g == CHOOSE x \in free : \A y \in free : x <= y
                IN /\ loop' = [cleaned EXCEPT ![g] =
                                 [st |-> "scheduled", isStreaming |-> isStreaming,
                                  model |-> model, stopped |-> FALSE]]
                   /\ animationFrameRef' = g
        ELSE /\ loop' = cancelAnimationFrame(cleaned, animationFrameRef)
             /\ UNCHANGED animationFrameRef
  /\ lastOp' = "effect"
  /\ NoLoopCalls /\ NoVoiceCalls
  /\ UNCHANGED <<now, model, isLoading, error, isStreaming, isRecording, faceCount,
                 srcObject, videoReady, gumPending, canvasVars, gateVars,
                 deviceVars, narrationVars, imageVars>>

\* Mutant: the guard tests the element instead of its stream, and the body
\* flips isStreaming instead of clearing it.
stopWebcamFlips ==
  /\ IF VideoMounted
     THEN /\ srcObject' = FALSE /\ videoReady' = FALSE
          /\ isStreaming' = ~isStreaming /\ isRecording' = FALSE
     ELSE UNCHANGED <<srcObject, videoReady, isStreaming, isRecording>>
  /\ loop' = cancelAnimationFrame(loop, animationFrameRef)
  /\ lastOp' = IF lastOp \in {"stopWebcam", "stopWebcam again"}
               THEN "stopWebcam again" ELSE "stopWebcam"
  /\ NoLoopCalls /\ NoVoiceCalls
  /\ UNCHANGED <<now, model, isLoading, error, faceCount, gumPending, effectPending,
                 animationFrameRef, canvasVars, gateVars, deviceVars, narrationVars, imageVars>>

\* stopWebcam, and the effect React runs synchronously after the click when
\* isStreaming changed (cleanup, then the else branch of the body).  A
\* detector call that is pending is marked as having seen a stop.
stopWebcam ==
  LET attached == VideoMounted /\ srcObject
      afterHandler == cancelAnimationFrame(loop, animationFrameRef)
      afterEffect ==
        IF attached /\ isStreaming
        THEN cancelAnimationFrame(cancelAnimationFrame(afterHandler, animationFrameRef),
                                  animationFrameRef)
        ELSE afterHandler
  IN /\ IF attached
        THEN /\ srcObject' = FALSE /\ videoReady' = FALSE
             /\ isStreaming' = FALSE /\ isRecording' = FALSE
        ELSE UNCHANGED <<srcObject, videoReady, isStreaming, isRecording>>
     /\ loop' = [g \in Loops |->
                  IF afterEffect[g].st = "inflight"
                  THEN [afterEffect[g] EXCEPT !.stopped = TRUE]
                  ELSE afterEffect[g]]
     /\ lastOp' = IF lastOp \in {"stopWebcam", "stopWebcam again"}
                  THEN "stopWebcam again" ELSE "stopWebcam"
     /\ NoLoopCalls /\ NoVoiceCalls
     /\ UNCHANGED <<now, model, isLoading, error, faceCount, gumPending, effectPending,
                    animationFrameRef, canvasVars, gateVars, deviceVars, narrationVars, imageVars>>

\* toggleWebcam while streaming (the button is disabled while isLoading).
\* With an effect still pending React runs it before the re-render, which
\* is LoopEffect followed by this task.
StopWebcam ==
  /\ ~isLoading /\ isStreaming /\ ~effectPending
  /\ stopWebcam

\* stopWebcam called in any state, as a function.
StopWebcamCall ==
  /\ ~effectPending
  /\ stopWebcam

toggleRecording ==
  /\ isStreaming
  /\ isRecording' = ~isRecording
  /\ lastOp' = "toggleRecording"
  /\ NoLoopCalls /\ NoVoiceCalls
  /\ UNCHANGED <<now, model, isLoading, error, isStreaming, faceCount, srcObject,
                 videoReady, gumPending, effectPending, loop, animationFrameRef, canvasVars,
                 gateVars, deviceVars, narrationVars, imageVars>>

\* The video element gets its first frame, or stalls.
VideoReadyChange ==
  /\ VideoMounted /\ srcObject
  /\ videoReady' = ~videoReady
  /\ lastOp' = "video"
  /\ NoLoopCalls /\ NoVoiceCalls
  /\ UNCHANGED <<now, model, isLoading, error, isStreaming, isRecording, faceCount,
                 srcObject, gumPending, effectPending, loop, animationFrameRef, canvasVars,
                 gateVars, deviceVars, narrationVars, imageVars>>

Tick(d) ==
  /\ now + d <= MaxTime
  /\ now' = now + d
  /\ lastOp' = "tick"
  /\ NoLoopCalls /\ NoVoiceCalls
  /\ UNCHANGED <<webcamVars, appVars, imageVars, deviceVars, voiceVars, speechVars>>

\* The clock of the frame-rate runs.
SlowTick(d) ==
  /\ now + d <= MaxFpsTime
  /\ now' = now + d
  /\ lastOp' = "tick"
  /\ NoLoopCalls /\ NoVoiceCalls
  /\ UNCHANGED <<webcamVars, appVars, imageVars, deviceVars, voiceVars, speechVars>>

\* The clock of the liveness runs.
LiveTick(d) ==
  /\ now + d <= MaxLiveTime
  /\ now' = now + d
  /\ lastOp' = "tick"
  /\ NoLoopCalls /\ NoVoiceCalls
  /\ UNCHANGED <<webcamVars, appVars, imageVars, deviceVars, voiceVars, speechVars>>

\* The clock of the rate runs.
RateTick(d) ==
  /\ now + d <= MaxRateTime
  /\ now' = now + d
  /\ lastOp' = "tick"
  /\ NoLoopCalls /\ NoVoiceCalls
  /\ UNCHANGED <<webcamVars, appVars, imageVars, deviceVars, voiceVars, speechVars>>

\* Mutant: the gate lets a call through one millisecond early.
ThrottledEarly(t, last) == t - last < MinInterval - 1

\* The throttle gate of detectFaces: TRUE when the callback must skip.
Throttled(t, last) == t - last < MinInterval

\* Mutant: the counter also counts the first cycle, which has no delta.
AcceptCycleCountsFirst ==
  /\ lastDetectionTime' = now
  /\ fpsCounterRef' = fpsCounterRef + 1
  /\ fpsPublished' = ((fpsCounterRef + 1) % FpsEvery = 0)
  /\ fps' = IF (fpsCounterRef + 1) % FpsEvery = 0
            THEN RoundFps(now - lastTimeRef) ELSE fps
  /\ lastTimeRef' = now
  /\ issued' = IF Len(issued) = 2 THEN <<issued[2], now>> ELSE Append(issued, now)
  /\ acceptedCycles' = acceptedCycles + 1
  /\ canvasSized' = TRUE
  /\ overlay' = IF canvasSized THEN overlay ELSE <<>>

\* detectFaces between the gate and the await: the frame-rate counter, and
\* the canvas takes the size of the video frame (setting the size of a
\* canvas erases it).
AcceptCycle ==
  /\ lastDetectionTime' = now
  /\ IF lastTimeRef > 0
     THEN /\ fpsCounterRef' = fpsCounterRef + 1
          /\ fpsPublished' = ((fpsCounterRef + 1) % FpsEvery = 0)
          /\ fps' = IF (fpsCounterRef + 1) % FpsEvery = 0
                    THEN RoundFps(now - lastTimeRef) ELSE fps
     ELSE /\ fpsPublished' = FALSE
          /\ UNCHANGED <<fpsCounterRef, fps>>
  /\ lastTimeRef' = now
  /\ issued' = IF Len(issued) = 2 THEN <<issued[2], now>> ELSE Append(issued, now)
  /\ acceptedCycles' = acceptedCycles + 1
  /\ canvasSized' = TRUE
  /\ overlay' = IF canvasSized THEN overlay ELSE <<>>

\* Mutant: a throttled callback restarts the interval it is measured from.
detectFacesSlidingGate(g) ==
  /\ loop[g].st = "scheduled"
  /\ IF ~loop[g].model \/ ~VideoMounted \/ ~loop[g].isStreaming
     THEN /\ loop' = [loop EXCEPT ![g] = IdleLoop]
          /\ lastOp' = "detectFaces: return"
          /\ estimateCalled' = FALSE /\ fpsPublished' = FALSE
          /\ UNCHANGED <<animationFrameRef, gateVars, canvasVars>>
     ELSE IF ~videoReady
     THEN /\ animationFrameRef' = g
          /\ lastOp' = "detectFaces: not ready"
          /\ estimateCalled' = FALSE /\ fpsPublished' = FALSE
          /\ UNCHANGED <<loop, gateVars, canvasVars>>
     ELSE IF Throttled(now, lastDetectionTime)
     THEN /\ animationFrameRef' = g
          /\ lastOp' = "detectFaces: throttled"
          /\ estimateCalled' = FALSE /\ fpsPublished' = FALSE
          /\ lastDetectionTime' = now
          /\ UNCHANGED <<loop, lastTimeRef, fpsCounterRef, fps, issued, acceptedCycles,
                         canvasVars>>
     ELSE /\ AcceptCycle
          /\ loop' = [loop EXCEPT ![g].st = "inflight", ![g].stopped = FALSE]
          /\ lastOp' = "detectFaces: accepted"
          /\ estimateCalled' = TRUE
          /\ UNCHANGED animationFrameRef
  /\ batchDelivered' = FALSE /\ labelDraws' = <<>>
  /\ NoVoiceCalls
  /\ UNCHANGED <<now, model, isLoading, error, isStreaming, isRecording, faceCount,
                 srcObject, videoReady, gumPending, effectPending,
                 deviceVars, narrationVars, imageVars>>

\* Mutant: a throttled callback returns without requesting the next frame.
detectFacesDropsThrottled(g) ==
  /\ loop[g].st = "scheduled"
  /\ IF ~loop[g].model \/ ~VideoMounted \/ ~loop[g].isStreaming
     THEN /\ loop' = [loop EXCEPT ![g] = IdleLoop]
          /\ lastOp' = "detectFaces: return"
          /\ estimateCalled' = FALSE /\ fpsPublished' = FALSE
          /\ UNCHANGED <<animationFrameRef, gateVars, canvasVars>>
     ELSE IF ~videoReady
     THEN /\ animationFrameRef' = g
          /\ lastOp' = "detectFaces: not ready"
          /\ estimateCalled' = FALSE /\ fpsPublished' = FALSE
          /\ UNCHANGED <<loop, gateVars, canvasVars>>
     ELSE IF Throttled(now, lastDetectionTime)
     THEN /\ loop' = [loop EXCEPT ![g] = IdleLoop]
          /\ lastOp' = "detectFaces: throttled"
          /\ estimateCalled' = FALSE /\ fpsPublished' = FALSE
          /\ UNCHANGED <<animationFrameRef, gateVars, canvasVars>>
     ELSE /\ AcceptCycle
          /\ loop' = [loop EXCEPT ![g].st = "inflight", ![g].stopped = FALSE]
          /\ lastOp' = "detectFaces: accepted"
          /\ estimateCalled' = TRUE
          /\ UNCHANGED animationFrameRef
  /\ batchDelivered' = FALSE /\ labelDraws' = <<>>
  /\ NoVoiceCalls
  /\ UNCHANGED <<now, model, isLoading, error, isStreaming, isRecording, faceCount,
                 srcObject, videoReady, gumPending, effectPending,
                 deviceVars, narrationVars, imageVars>>

\* Mutant: lastTimeRef is stamped by every callback that finds the source
\* ready, lastDetectionTime only by the accepted ones.
detectFacesStampsEveryFrame(g) ==
  /\ loop[g].st = "scheduled"
  /\ IF ~loop[g].model \/ ~VideoMounted \/ ~loop[g].isStreaming
     THEN /\ loop' = [loop EXCEPT ![g] = IdleLoop]
          /\ lastOp' = "detectFaces: return"
          /\ estimateCalled' = FALSE /\ fpsPublished' = FALSE
          /\ UNCHANGED <<animationFrameRef, gateVars, canvasVars>>
     ELSE IF ~videoReady
     THEN /\ animationFrameRef' = g
          /\ lastOp' = "detectFaces: not ready"
          /\ estimateCalled' = FALSE /\ fpsPublished' = FALSE
          /\ UNCHANGED <<loop, gateVars, canvasVars>>
     ELSE IF Throttled(now, lastDetectionTime)
     THEN /\ animationFrameRef' = g
          /\ lastOp' = "detectFaces: throttled"
          /\ estimateCalled' = FALSE /\ fpsPublished' = FALSE
          /\ lastTimeRef' = now
          /\ UNCHANGED <<loop, lastDetectionTime, fpsCounterRef, fps, issued,
                         acceptedCycles, canvasVars>>
     ELSE /\ AcceptCycle
          /\ loop' = [loop EXCEPT ![g].st = "inflight", ![g].stopped = FALSE]
          /\ lastOp' = "detectFaces: accepted"
          /\ estimateCalled' = TRUE
          /\ UNCHANGED animationFrameRef
  /\ batchDelivered' = FALSE /\ labelDraws' = <<>>
  /\ NoVoiceCalls
  /\ UNCHANGED <<now, model, isLoading, error, isStreaming, isRecording, faceCount,
                 srcObject, videoReady, gumPending, effectPending,
                 deviceVars, narrationVars, imageVars>>

\* One animation-frame callback of chain g: detectFaces up to its await.
\* isStreaming and model are the values the closure captured.
detectFaces(g) ==
  /\ loop[g].st = "scheduled"
  /\ IF ~loop[g].model \/ ~VideoMounted \/ ~loop[g].isStreaming
     THEN /\ loop' = [loop EXCEPT ![g] = IdleLoop]
          /\ lastOp' = "detectFaces: return"
          /\ estimateCalled' = FALSE /\ fpsPublished' = FALSE
          /\ UNCHANGED <<animationFrameRef, gateVars, canvasVars>>
     ELSE IF ~videoReady
     THEN /\ animationFrameRef' = g
          /\ lastOp' = "detectFaces: not ready"
          /\ estimateCalled' = FALSE /\ fpsPublished' = FALSE
          /\ UNCHANGED <<loop, gateVars, canvasVars>>
     ELSE IF Throttled(now, lastDetectionTime)
     THEN /\ animationFrameRef' = g
          /\ lastOp' = "detectFaces: throttled"
          /\ estimateCalled' = FALSE /\ fpsPublished' = FALSE
          /\ UNCHANGED <<loop, gateVars, canvasVars>>
     ELSE /\ AcceptCycle
          /\ loop' = [loop EXCEPT ![g].st = "inflight", ![g].stopped = FALSE]
          /\ lastOp' = "detectFaces: accepted"
          /\ estimateCalled' = TRUE
          /\ UNCHANGED animationFrameRef
  /\ batchDelivered' = FALSE /\ labelDraws' = <<>>
  /\ NoVoiceCalls
  /\ UNCHANGED <<now, model, isLoading, error, isStreaming, isRecording, faceCount,
                 srcObject, videoReady, gumPending, effectPending,
                 deviceVars, narrationVars, imageVars>>

\* Mutant: the completion draws over what the canvas already shows.
EstimateFacesResolveDrawsOver(g, b) ==
  /\ loop[g].st = "inflight"
  /\ staleCallbacks < MaxStale
  /\ faceCount' = Len(b)
  /\ handleFaceDetected(b)
  /\ labelDraws' = Drawn(b)
  /\ overlay' = overlay \o Drawn(b)
  /\ UNCHANGED canvasSized
  /\ loop' = [loop EXCEPT ![g].st = "scheduled"]
  /\ animationFrameRef' = g
  /\ lastOp' = "estimateFaces resolved"
  /\ estimateCalled' = FALSE /\ fpsPublished' = FALSE
  /\ UNCHANGED <<now, model, isLoading, error, isStreaming, isRecording, srcObject,
                 videoReady, gumPending, effectPending, gateVars, deviceVars, imageVars>>

\* detectFaces after model.estimateFaces resolved with the batch b.
EstimateFacesResolve(g, b) ==
  /\ loop[g].st = "inflight"
  /\ staleCallbacks < MaxStale
  /\ faceCount' = Len(b)
  /\ handleFaceDetected(b)
  /\ labelDraws' = Drawn(b)
  /\ overlay' = clearRect(overlay) \o Drawn(b)
  /\ UNCHANGED canvasSized
  /\ loop' = [loop EXCEPT ![g].st = "scheduled"]
  /\ animationFrameRef' = g
  /\ lastOp' = "estimateFaces resolved"
  /\ estimateCalled' = FALSE /\ fpsPublished' = FALSE
  /\ UNCHANGED <<now, model, isLoading, error, isStreaming, isRecording, srcObject,
                 videoReady, gumPending, effectPending, gateVars, deviceVars, imageVars>>

\* Mutant: the catch branch returns instead of falling through to the
\* requestAnimationFrame call.
EstimateFacesRejectHalts(g) ==
  /\ loop[g].st = "inflight"
  /\ loop' = [loop EXCEPT ![g] = IdleLoop]
  /\ lastOp' = "estimateFaces rejected"
  /\ NoLoopCalls /\ NoVoiceCalls
  /\ UNCHANGED <<now, model, isLoading, error, isStreaming, isRecording, faceCount,
                 srcObject, videoReady, gumPending, effectPending, animationFrameRef,
                 canvasVars, gateVars, deviceVars, narrationVars, imageVars>>

\* detectFaces after model.estimateFaces rejected: the catch branch.
EstimateFacesReject(g) ==
  /\ loop[g].st = "inflight"
  /\ loop' = [loop EXCEPT ![g].st = "scheduled"]
  /\ animationFrameRef' = g
  /\ lastOp' = "estimateFaces rejected"
  /\ NoLoopCalls /\ NoVoiceCalls
  /\ UNCHANGED <<now, model, isLoading, error, isStreaming, isRecording, faceCount,
                 srcObject, videoReady, gumPending, effectPending, canvasVars, gateVars,
                 deviceVars, narrationVars, imageVars>>

\* ------------------------------------------- narration: tasks and events
\* onFaceDetected(b) called by a detection (the live loop or the still-image
\* analysis): what VoiceDescription sees of it.
BatchArrives(b) ==
  /\ detectionCount < MaxDetections
  /\ staleCallbacks < MaxStale
  /\ handleFaceDetected(b)
  /\ lastOp' = "onFaceDetected"
  /\ estimateCalled' = FALSE /\ fpsPublished' = FALSE /\ labelDraws' = <<>>
  /\ UNCHANGED <<now, webcamVars, imageVars, deviceVars>>

\* handleVoiceToggle(!voiceEnabled).  App renders VoiceDescription only when
\* voiceEnabled: switching off unmounts it (its state is discarded and the
\* callbacks of its utterances no longer reach a component), switching on
\* mounts a new one.  On mount both effects run with the closures of the
\* first render, in which speechSupported is still false.
handleVoiceToggle ==
  /\ voiceEnabled' = ~voiceEnabled
  /\ IF voiceEnabled
     THEN /\ speechSupported' = FALSE
          /\ isSpeaking' = FALSE /\ lastFaceCount' = 0 /\ currentDescription' = NoText
          /\ utterances' = [i \in 1..Len(utterances) |->
                              [utterances[i] EXCEPT !.live = FALSE]]
          /\ staleCallbacks' = 0
          /\ NoVoiceCalls
     ELSE /\ speechSupported' = speechApi
          /\ NarrationEffect(TRUE, faces, FALSE)
  /\ lastOp' = "handleVoiceToggle"
  /\ NoLoopCalls
  /\ UNCHANGED <<now, webcamVars, imageVars, faces, averageConfidence, detectionCount,
                 sessionTime, deviceVars>>

\* The "Describe Current View" button: disabled={isSpeaking || !speechSupported}.
DescribeAllowed == ~(isSpeaking \/ ~speechSupported)

\* Mutant: the manual description goes through the delta check of the effect.
speakDetailedDescriptionGated ==
  /\ voiceEnabled /\ DescribeAllowed
  /\ staleCallbacks < MaxStale
  /\ IF Abs(Len(faces) - lastFaceCount) >= 1
     THEN speakDescription(voiceEnabled, getDetailedDescription(faces), speechSupported)
     ELSE /\ UNCHANGED <<utterances, staleCallbacks, currentDescription, isSpeaking>>
          /\ NoVoiceCalls
  /\ lastOp' = "speakDetailedDescription"
  /\ NoLoopCalls
  /\ UNCHANGED <<now, webcamVars, imageVars, appVars, deviceVars, speechSupported, lastFaceCount>>

\* A click on the "Describe Current View" button: speakDetailedDescription.
speakDetailedDescription ==
  /\ voiceEnabled /\ DescribeAllowed
  /\ staleCallbacks < MaxStale
  /\ speakDescription(voiceEnabled, getDetailedDescription(faces), speechSupported)
  /\ lastOp' = "speakDetailedDescription"
  /\ NoLoopCalls
  /\ UNCHANGED <<now, webcamVars, imageVars, appVars, deviceVars, speechSupported, lastFaceCount>>

\* The "Stop" button, rendered while isSpeaking.
stopSpeaking ==
  /\ voiceEnabled /\ isSpeaking
  /\ staleCallbacks < MaxStale
  /\ IF speechSupported
     THEN /\ SpeechCancel
          /\ utterances' = <<>>
          /\ isSpeaking' = FALSE
     ELSE /\ cancelled' = 0
          /\ UNCHANGED <<utterances, staleCallbacks, isSpeaking>>
  /\ speakCalled' = FALSE
  /\ lastOp' = "stopSpeaking"
  /\ NoLoopCalls
  /\ UNCHANGED <<now, webcamVars, imageVars, appVars, deviceVars, speechSupported, lastFaceCount,
                 currentDescription>>

\* The head of the queue starts to play: utterance.onstart.
UtteranceStart ==
  /\ utterances # <<>> /\ utterances[1].st = "pending"
  /\ utterances' = [utterances EXCEPT ![1].st = "speaking"]
  /\ isSpeaking' = IF utterances[1].live THEN TRUE ELSE isSpeaking
  /\ lastOp' = "onstart"
  /\ NoLoopCalls /\ NoVoiceCalls
  /\ UNCHANGED <<now, webcamVars, imageVars, appVars, deviceVars, speechSupported, lastFaceCount,
                 currentDescription, staleCallbacks>>

\* The playing utterance finishes: utterance.onend.
UtteranceEnd ==
  /\ utterances # <<>> /\ utterances[1].st = "speaking"
  /\ utterances' = Tail(utterances)
  /\ isSpeaking' = IF utterances[1].live THEN FALSE ELSE isSpeaking
  /\ lastOp' = "onend"
  /\ NoLoopCalls /\ NoVoiceCalls
  /\ UNCHANGED <<now, webcamVars, imageVars, appVars, deviceVars, speechSupported, lastFaceCount,
                 currentDescription, staleCallbacks>>

\* Synthesis of the head of the queue fails: utterance.onerror.
UtteranceError ==
  /\ utterances # <<>>
  /\ utterances' = Tail(utterances)
  /\ isSpeaking' = IF utterances[1].live THEN FALSE ELSE isSpeaking
  /\ lastOp' = "onerror"
  /\ NoLoopCalls /\ NoVoiceCalls
  /\ UNCHANGED <<now, webcamVars, imageVars, appVars, deviceVars, speechSupported, lastFaceCount,
                 currentDescription, staleCallbacks>>

\* The end/error event of an utterance that cancel() removed is delivered.
CancelledCallback ==
  /\ staleCallbacks > 0
  /\ staleCallbacks' = staleCallbacks - 1
  /\ isSpeaking' = FALSE
  /\ lastOp' = "onend of a cancelled utterance"
  /\ NoLoopCalls /\ NoVoiceCalls
  /\ UNCHANGED <<now, webcamVars, imageVars, appVars, deviceVars, speechSupported, lastFaceCount,
                 currentDescription, utterances>>

\* ------------------------------------------------------------- ImageUpload
\* The hue of the face at 0-based index i in the still-image renderer.
ImageHue(i) == 120 + i * 60

\* The label badges faces.forEach draws on the canvas of ImageUpload.
DrawnImage(fs) == [i \in 1..Len(fs) |-> ImageHue(i - 1)]

Remove(q, k) == [i \in 1..(Len(q) - 1) |-> IF i < k THEN q[i] ELSE q[i + 1]]

imageNarrationVars == <<faces, averageConfidence, detectionCount, voiceEnabled, sessionTime,
                        voiceVars,
                        speechVars>>

\* reader.onload of handleImageUpload: the file input is rendered only while
\* no image is selected; the img and a new canvas are rendered.
handleImageUpload ==
  /\ ~selectedImage
  /\ selectedImage' = TRUE /\ detectedFaces' = <<>> /\ analysisComplete' = FALSE
  /\ imageLoading' = TRUE
  /\ imageOverlay' = <<>>
  /\ lastOp' = "image: reader.onload"
  /\ NoLoopCalls /\ NoVoiceCalls
  /\ UNCHANGED <<now, webcamVars, appModel, isProcessing, imageCalls, deviceVars,
                 imageNarrationVars>>

\* detectFacesInImage up to its await.  Setting the size of the canvas
\* erases it.
detectFacesInImage ==
  IF ~appModel \/ ~selectedImage
  THEN /\ UNCHANGED <<isProcessing, imageCalls, imageOverlay>>
       /\ estimateCalled' = FALSE
  ELSE /\ isProcessing' = TRUE
       /\ imageOverlay' = <<>>
       /\ imageCalls' = Append(imageCalls, [attached |-> TRUE])
       /\ estimateCalled' = TRUE

\* onLoad of the img element.
ImageOnLoad ==
  /\ selectedImage /\ imageLoading
  /\ Len(imageCalls) < MaxImageCalls
  /\ detectionCount + Len(imageCalls) < MaxDetections
  /\ imageLoading' = FALSE
  /\ IF appModel /\ ~analysisComplete
     THEN detectFacesInImage
     ELSE /\ UNCHANGED <<isProcessing, imageCalls, imageOverlay>>
          /\ estimateCalled' = FALSE
  /\ lastOp' = "image: onLoad"
  /\ batchDelivered' = FALSE /\ fpsPublished' = FALSE /\ labelDraws' = <<>>
  /\ NoVoiceCalls
  /\ UNCHANGED <<now, webcamVars, appModel, selectedImage, detectedFaces,
                 analysisComplete, deviceVars, imageNarrationVars>>

\* The "Detect Faces" button, disabled={isProcessing || !model}.
DetectFacesClick ==
  /\ selectedImage /\ ~(isProcessing \/ ~appModel)
  /\ Len(imageCalls) < MaxImageCalls
  /\ detectionCount + Len(imageCalls) < MaxDetections
  /\ detectFacesInImage
  /\ lastOp' = "image: detectFacesInImage"
  /\ batchDelivered' = FALSE /\ fpsPublished' = FALSE /\ labelDraws' = <<>>
  /\ NoVoiceCalls
  /\ UNCHANGED <<now, webcamVars, appModel, selectedImage, imageLoading, detectedFaces,
                 analysisComplete, deviceVars, imageNarrationVars>>

\* detectFacesInImage after model.estimateFaces resolved with the batch b:
\* the results, onFaceDetected, the drawing on the canvas the call captured,
\* and the finally block.
EstimateImageResolve(k, b) ==
  /\ k \in 1..Len(imageCalls)
  /\ staleCallbacks < MaxStale
  /\ imageCalls' = Remove(imageCalls, k)
  /\ detectedFaces' = b
  /\ handleFaceDetected(b)
  /\ analysisComplete' = TRUE
  /\ labelDraws' = DrawnImage(b)
  /\ imageOverlay' = IF imageCalls[k].attached
                     THEN clearRect(imageOverlay) \o DrawnImage(b)
                     ELSE imageOverlay
  /\ isProcessing' = FALSE
  /\ lastOp' = "image: estimateFaces resolved"
  /\ estimateCalled' = FALSE /\ fpsPublished' = FALSE
  /\ UNCHANGED <<now, webcamVars, appModel, selectedImage, imageLoading, deviceVars>>

\* detectFacesInImage after model.estimateFaces rejected: catch and finally.
EstimateImageReject(k) ==
  /\ k \in 1..Len(imageCalls)
  /\ imageCalls' = Remove(imageCalls, k)
  /\ isProcessing' = FALSE
  /\ lastOp' = "image: estimateFaces rejected"
  /\ NoLoopCalls /\ NoVoiceCalls
  /\ UNCHANGED <<now, webcamVars, appModel, selectedImage, imageLoading, detectedFaces,
                 analysisComplete, imageOverlay, deviceVars, imageNarrationVars>>

\* clearImage: the img and its canvas are no longer rendered.
clearImage ==
  /\ selectedImage
  /\ selectedImage' = FALSE /\ detectedFaces' = <<>> /\ analysisComplete' = FALSE
  /\ imageLoading' = FALSE
  /\ imageCalls' = [i \in 1..Len(imageCalls) |-> [attached |-> FALSE]]
  /\ imageOverlay' = <<>>
  /\ lastOp' = "image: clearImage"
  /\ NoLoopCalls /\ NoVoiceCalls
  /\ UNCHANGED <<now, webcamVars, appModel, isProcessing, deviceVars, imageNarrationVars>>

\* ------------------------------------------------------------ session timer
\* The callback of the setInterval(..., 1000) that App starts on mount; no
\* state of the application stops, restarts or resets it.
SessionTick ==
  /\ sessionTime < MaxSession
  /\ sessionTime' = sessionTime + 1
  /\ lastOp' = "session timer"
  /\ NoLoopCalls /\ NoVoiceCalls
  /\ UNCHANGED <<now, webcamVars, imageVars, faces, averageConfidence, detectionCount,
                 voiceEnabled, deviceVars,
                 voiceVars, speechVars>>

\* ---------------------------------------------------------- specifications
NextLoop ==
  \/ LoadModelResolve
  \/ LoadModelReject
  \/ StartWebcam
  \/ GetUserMediaResolve
  \/ GetUserMediaReject
  \/ LoopEffect
  \/ StopWebcam
  \/ toggleRecording
  \/ VideoReadyChange
  \/ \E d \in TickSteps : Tick(d)
  \/ \E g \in Loops : detectFaces(g)
  \/ \E g \in Loops, b \in LoopBatches : EstimateFacesResolve(g, b)
  \/ \E g \in Loops : EstimateFacesReject(g)

\* The live detection loop with the aggregator and narration it feeds.
SpecLoop == Init /\ [][NextLoop]_vars

NextVoice ==
  \/ \E b \in Batches : BatchArrives(b)
  \/ handleVoiceToggle
  \/ speakDetailedDescription
  \/ stopSpeaking
  \/ UtteranceStart
  \/ UtteranceEnd
  \/ UtteranceError
  \/ CancelledCallback

\* The narration trigger and the speech collaborator, fed with batches.
SpecVoice == Init /\ [][NextVoice]_vars

NextStop == NextLoop \/ StopWebcamCall

\* The same, with stopWebcam also called as a function in any state.
SpecStop == Init /\ [][NextStop]_vars

NextSession == NextLoop \/ SessionTick

\* The live detection loop together with the session timer of App.
SpecSession == Init /\ [][NextSession]_vars

NextFps ==
  \/ LoadModelResolve
  \/ StartWebcam
  \/ GetUserMediaResolve
  \/ LoopEffect
  \/ VideoReadyChange
  \/ \E d \in SlowSteps : SlowTick(d)
  \/ \E g \in Loops : detectFaces(g)
  \/ \E g \in Loops : EstimateFacesResolve(g, <<>>)
  \/ \E g \in Loops : EstimateFacesReject(g)

\* The live detection loop over thirty-two detection cycles, in front of a
\* scene without faces.
SpecFps == Init /\ [][NextFps]_vars

NextRender ==
  \/ LoadModelResolve
  \/ StartWebcam
  \/ GetUserMediaResolve
  \/ LoopEffect
  \/ VideoReadyChange
  \/ \E d \in TickSteps : Tick(d)
  \/ \E g \in Loops : detectFaces(g)
  \/ \E g \in Loops, b \in RenderBatches : EstimateFacesResolve(g, b)
  \/ handleImageUpload
  \/ ImageOnLoad
  \/ \E k \in 1..MaxImageCalls, b \in RenderBatches : EstimateImageResolve(k, b)

\* The two overlay renderers, the live loop and the still-image analysis,
\* with detector results of up to five faces.
SpecRender == Init /\ [][NextRender]_vars

NextImage ==
  \/ handleImageUpload
  \/ ImageOnLoad
  \/ DetectFacesClick
  \/ \E k \in 1..MaxImageCalls, b \in Batches : EstimateImageResolve(k, b)
  \/ \E k \in 1..MaxImageCalls : EstimateImageReject(k)
  \/ clearImage

\* The still-image analysis of ImageUpload.
SpecImage == Init /\ [][NextImage]_vars

NextPosition ==
  \/ \E b \in PositionBatches : BatchArrives(b)
  \/ speakDetailedDescription
  \/ UtteranceStart
  \/ UtteranceEnd

\* The narration trigger fed with single faces around the boundaries of the
\* position label, from a camera of any resolution.
SpecPosition == InitAnyCamera /\ [][NextPosition]_vars

NextLive ==
  \/ LoadModelResolve
  \/ StartWebcam
  \/ GetUserMediaResolve
  \/ LoopEffect
  \/ VideoReadyChange
  \/ \E d \in TickSteps : LiveTick(d)
  \/ \E g \in Loops : detectFaces(g)
  \/ \E g \in Loops : EstimateFacesResolve(g, <<>>)
  \/ \E g \in Loops : EstimateFacesReject(g)

\* What the browser guarantees: the clock advances, a requested animation
\* frame is delivered unless it is cancelled, a pending effect is run, and
\* (the premise of the liveness claim) every detector call settles.
FairLive ==
  /\ WF_vars(\E d \in TickSteps : LiveTick(d))
  /\ WF_vars(LoopEffect)
  /\ \A g \in Loops : WF_vars(detectFaces(g))
  /\ \A g \in Loops :
       WF_vars(EstimateFacesReject(g) \/ EstimateFacesResolve(g, <<>>))

\* The live detection loop under these guarantees, in front of a scene
\* without faces and with nobody stopping the stream.
SpecLive == Init /\ [][NextLive]_vars /\ FairLive

NextRate ==
  \/ LoadModelResolve
  \/ StartWebcam
  \/ GetUserMediaResolve
  \/ LoopEffect
  \/ VideoReadyChange
  \/ \E d \in RateSteps : RateTick(d)
  \/ \E g \in Loops : detectFaces(g)
  \/ \E g \in Loops : EstimateFacesResolve(g, <<>>)

\* The live detection loop over sixteen detection cycles, with frame
\* callbacks inside the throttle interval, in front of a scene without faces.
SpecRate == Init /\ [][NextRate]_vars

\* ------------------------------------------------------------------ claims
InFlight == { g \in Loops : loop[g].st = "inflight" }
Scheduled == { g \in Loops : loop[g].st = "scheduled" }

\* C1: at most one model.estimateFaces call of the live loop is in flight at
\* any instant, for every interleaving of frame callbacks, completions,
\* stopWebcam and startWebcam.
C1_AtMostOneInFlight == Cardinality(InFlight) <= 1

\* C2: the completion of a detector call that was in flight when stopWebcam
\* was called does not invoke onFaceDetected: the face list, the session
\* counter and the narration state stay as they were.
C2_StoppedBatchDiscarded ==
  [][\A g \in Loops :
       (loop[g].st = "inflight" /\ loop[g].stopped /\ loop'[g].st # "inflight")
         => /\ ~batchDelivered'
            /\ faces' = faces /\ detectionCount' = detectionCount
            /\ lastFaceCount' = lastFaceCount /\ utterances' = utterances]_vars

\* C3: while the stream is stopped (from stopWebcam to the next start) no
\* frame callback of the detection loop is scheduled, also when a detector
\* call was in flight at the stop and settles afterwards.
C3_NoCallbackWhileStopped == ~isStreaming => Scheduled = {}

\* C4: two detector invocations are never accepted by the throttle gate less
\* than 67 ms apart.
C4_ThrottleSpacing == Len(issued) = 2 => issued[2] - issued[1] >= MinInterval

\* Two calls were issued, the second exactly 67 ms after the first.
C4_Witness == Len(issued) = 2 /\ issued[2] - issued[1] = MinInterval

\* C5: when the detector call rejects, onFaceDetected is not invoked, no
\* error state is set and the next frame callback is requested, as after a
\* successful cycle.
C5_RejectSwallowed ==
  [][\A g \in Loops :
       (loop[g].st = "inflight" /\ loop'[g].st # "inflight"
          /\ lastOp' = "estimateFaces rejected")
         => /\ ~batchDelivered' /\ faces' = faces /\ faceCount' = faceCount
            /\ error' = error
            /\ loop'[g].st = "scheduled" /\ animationFrameRef' = g]_vars

\* A rejected call left its chain with a pending frame callback.
C5_Witness ==
  /\ lastOp = "estimateFaces rejected"
  /\ animationFrameRef \in Scheduled

\* C6: stopWebcam called when no stream was ever started, or directly after
\* another stopWebcam, changes nothing.
NeverStarted == ~isStreaming /\ ~srcObject /\ animationFrameRef = 0

C6_StopIdempotent ==
  [][(lastOp' = "stopWebcam again" \/ (lastOp' = "stopWebcam" /\ NeverStarted))
       => UNCHANGED <<webcamVars, appVars, imageVars, voiceVars, speechVars>>]_vars

\* stopWebcam ran twice in a row after a loop had been started.
C6_Witness ==
  /\ lastOp = "stopWebcam again"
  /\ animationFrameRef # 0 /\ ~isStreaming

\* C7: the speech collaborator holds at most one pending or playing
\* utterance at any instant; a dispatch cancels every earlier one.
C7_AtMostOneUtterance == Len(utterances) <= 1

\* A dispatch found an utterance that had not completed and replaced it.
C7_Witness == speakCalled /\ cancelled = 1 /\ Len(utterances) = 1

\* C8: lastFaceCount changes only in a task that handed a narration to
\* speechSynthesis.speak (stated for a browser that has speech synthesis
\* and for the mounted component).
C8_LastCountOnlyOnSpeak ==
  [][(speechApi /\ voiceEnabled' /\ lastFaceCount' # lastFaceCount)
       => speakCalled']_vars

\* C9: delta gating.  With narration enabled (the component mounted and
\* speech synthesis supported), a delivered batch whose length equals
\* lastFaceCount makes no speech call and leaves the narration state alone;
\* one whose length differs makes one speech call, which leaves exactly
\* that utterance pending, and sets lastFaceCount to the length in the same
\* task.
C9_DeltaGating ==
  [][(voiceEnabled /\ speechSupported /\ batchDelivered')
       => IF Len(faces') = lastFaceCount
          THEN /\ ~speakCalled'
               /\ UNCHANGED <<isSpeaking, lastFaceCount, utterances>>
          ELSE /\ speakCalled'
               /\ lastFaceCount' = Len(faces')
               /\ Len(utterances') = 1
               /\ utterances'[1].st = "pending"
               /\ utterances'[1].text = Description(faces')]_vars

\* After one face had been announced an empty batch was delivered: the
\* no-faces message was dispatched and lastFaceCount is back at 0.
C9_Witness ==
  /\ lastOp = "onFaceDetected" /\ speakCalled /\ cancelled = 1
  /\ lastFaceCount = 0
  /\ utterances = << [text |-> Description(<<>>), st |-> "pending", live |-> TRUE] >>

CallbackOps == {"onend", "onerror", "onend of a cancelled utterance"}

C11_DispatchSetsSpeaking == [][speakCalled' => isSpeaking']_vars

\* C11 as amended: a task that calls speechSynthesis.speak leaves isSpeaking
\* as it was, and while the component stays mounted isSpeaking goes from
\* false to true only inside the onstart callback of an utterance.
C11_OnlyOnstartSets ==
  [][/\ speakCalled' => isSpeaking' = isSpeaking
     /\ (voiceEnabled /\ voiceEnabled' /\ ~isSpeaking /\ isSpeaking')
          => lastOp' = "onstart"]_vars

\* A narration was dispatched and is pending; isSpeaking is still false.
C11_Witness ==
  /\ speakCalled /\ ~isSpeaking
  /\ Len(utterances) = 1 /\ utterances[1].st = "pending"

\* C12 as stated: in every state with narration enabled and speech
\* supported, whether or not an utterance is playing, the manual "describe
\* current view" action can be invoked.
C12_DescribeAlwaysAllowed == (voiceEnabled /\ speechSupported) => DescribeAllowed

\* C12 as amended: the manual action is offered while isSpeaking is false,
\* and every invocation dispatches the detailed description of the current
\* faces without consulting the delta check: lastFaceCount is neither read
\* nor written.
C12_DescribeBypassesDelta ==
  [][lastOp' = "speakDetailedDescription"
       => /\ ~isSpeaking /\ speechSupported
          /\ speakCalled'
          /\ utterances' = << [text |-> getDetailedDescription(faces),
                               st |-> "pending", live |-> TRUE] >>
          /\ lastFaceCount' = lastFaceCount]_vars

\* The detailed description of one face was dispatched while the delta
\* check would have been silent.
C12_Witness ==
  /\ lastOp = "speakDetailedDescription" /\ speakCalled
  /\ Len(faces) = 1 /\ lastFaceCount = 1
  /\ utterances # <<>> /\ utterances[1].text = getDetailedDescription(faces)

CaptureError == "Failed to access webcam. Please check permissions."

\* C13: with the model loaded, in the error state a rejected getUserMedia
\* left, a retry whose getUserMedia call succeeds attaches the stream, sets
\* isStreaming and clears the error.
C13_RetryRecovers ==
  [][(model /\ error = CaptureError /\ lastOp' = "getUserMedia resolved")
       => (srcObject' /\ isStreaming' /\ error' = NoError)]_vars

\* C14: sessionTime advances only while the detection session is active (it
\* does not advance while the stream is stopped, before the first start
\* included), and stopWebcam does not reset it.
C14_TimerOnlyWhileActive ==
  [][/\ sessionTime' # sessionTime => (isStreaming /\ sessionTime' = sessionTime + 1)
     /\ lastOp' \in {"stopWebcam", "stopWebcam again"} => sessionTime' = sessionTime]_vars

\* C15: when the stream is started again after a stop (a loop had been
\* started before and the stream is off), detectionCount and sessionTime
\* are back at 0.
C15_RestartResets ==
  [][(~isStreaming /\ animationFrameRef # 0 /\ isStreaming')
       => (detectionCount' = 0 /\ sessionTime' = 0)]_vars

\* C16: every delivered batch raises detectionCount by exactly 1 when it
\* holds at least one face, however many, and leaves it alone when it is
\* empty; no task lowers detectionCount.
C16_EventCount ==
  [][/\ batchDelivered'
          => detectionCount' = detectionCount + (IF Len(faces') > 0 THEN 1 ELSE 0)
     /\ detectionCount' >= detectionCount]_vars

\* A batch of two faces was delivered and counted as one event.
C16_Witness ==
  /\ batchDelivered /\ Len(faces) = 2 /\ detectionCount = 1

\* C17 as stated: the frame-rate counter equals the number of accepted
\* cycles, and setFps is called exactly on accepted cycles 15, 30, 45, ...
C17_PublishEvery15th ==
  [][/\ fpsCounterRef' = acceptedCycles'
     /\ fpsPublished' <=> (estimateCalled' /\ acceptedCycles' % FpsEvery = 0)]_vars

\* C17 as amended: the counter is incremented on every accepted cycle but
\* the first, so it is one less than the number of accepted cycles, and
\* setFps is called exactly on accepted cycles 16, 31, 46, ..., with the
\* rate of the delta to the cycle before.
C17_PublishEvery15thAfterFirst ==
  [][/\ fpsCounterRef' = (IF acceptedCycles' = 0 THEN 0 ELSE acceptedCycles' - 1)
     /\ fpsPublished' <=> (/\ estimateCalled' /\ acceptedCycles' > 1
                            /\ (acceptedCycles' - 1) % FpsEvery = 0)
     /\ fpsPublished' => fps' = RoundFps(now - lastTimeRef)
     /\ ~fpsPublished' => fps' = fps]_vars

\* The rate was published for the second time, on the 31st accepted cycle.
C17_Witness ==
  /\ fpsPublished /\ acceptedCycles = 2 * FpsEvery + 1 /\ fpsCounterRef = 2 * FpsEvery
  /\ fps = RoundFps(MinInterval)

\* C19: after every completed detection cycle the canvas holds exactly the
\* drawings of that cycle's batch and nothing of earlier cycles; after an
\* empty batch it holds nothing, and no error state is set.
C19_NoAccumulation ==
  [][lastOp' = "estimateFaces resolved"
       => /\ overlay' = Drawn(faces')
          /\ Len(faces') = 0 => overlay' = <<>>
          /\ error' = error]_vars

\* A cycle with an empty batch completed after a batch with faces had been
\* drawn: the canvas is empty.
C19_Witness ==
  /\ lastOp = "estimateFaces resolved" /\ faces = <<>> /\ detectionCount > 0
  /\ overlay = <<>>

RenderOps == {"estimateFaces resolved", "image: estimateFaces resolved"}

C20_NarrationText ==
  [][(batchDelivered' /\ speakCalled')
       => LET t == utterances'[1].text
              n == Len(faces')
          IN /\ currentDescription' = t
             /\ n = 0 => t = Text("no faces", 0, 0, <<>>, <<>>)
             /\ n = 1 => /\ t.kind = "one face"
                         /\ t.confidence = (faces'[1].probability + 5) \div 10
                         /\ t.position = getPositionDescription(faces'[1])
             /\ n > 1 => /\ t.kind = "faces" /\ t.count = n
                         /\ 20 * n * t.confidence <= 2 * SumProbability(faces') + 10 * n
                         /\ 2 * SumProbability(faces') + 10 * n < 20 * n * (t.confidence + 1)
             /\ faces' = << [topLeft |-> <<10, 10>>, bottomRight |-> <<60, 80>>,
                             probability |-> 950] >>
                  => t = Text("one face", 1, 95, <<"upper", "left">>, <<>>)]_vars

\* The batch of the scenario was delivered and narrated.
C20_Witness ==
  /\ lastOp = "onFaceDetected" /\ speakCalled
  /\ faces = << [topLeft |-> <<10, 10>>, bottomRight |-> <<60, 80>>, probability |-> 950] >>
  /\ utterances = << [text |-> Text("one face", 1, 95, <<"upper", "left">>, <<>>),
                      st |-> "pending", live |-> TRUE] >>

\* Twice the centre of the only face of the current batch.
Centre2 ==
  << faces[1].topLeft[1] + faces[1].bottomRight[1],
     faces[1].topLeft[2] + faces[1].bottomRight[2] >>

\* The position a narration of one face has just announced.
AnnouncedPosition ==
  IF currentDescription.kind = "one face" THEN currentDescription.position
  ELSE currentDescription.details[1].position

OneFaceAnnounced ==
  /\ speakCalled /\ Len(faces) = 1
  /\ currentDescription.kind \in {"one face", "detailed"}

\* C21 (as stated): in every narration of one face the horizontal word is
\* "left" exactly when the centre x is below 211 and the vertical word is
\* "upper" exactly when the centre y is below 160.
C21_BoundariesAsStated ==
  OneFaceAnnounced =>
    /\ (AnnouncedPosition[2] = "left") <=> (Centre2[1] < 2 * 211)
    /\ (AnnouncedPosition[1] = "upper") <=> (Centre2[2] < 2 * 160)

\* C21 (amended): the boundaries are 0.33 and 0.67 of 640 and of 480: "left"
\* below 211.2, "right" above 428.8, "upper" below 158.4, "lower" above
\* 321.6, "center" and "middle" between them (tenths of twice the centre).
C21_BoundariesOfCode ==
  OneFaceAnnounced =>
    /\ AnnouncedPosition[2] = (IF 10 * Centre2[1] < 4224 THEN "left"
                               ELSE IF 10 * Centre2[1] > 8576 THEN "right"
                               ELSE "center")
    /\ AnnouncedPosition[1] = (IF 10 * Centre2[2] < 3168 THEN "upper"
                               ELSE IF 10 * Centre2[2] > 6432 THEN "lower"
                               ELSE "middle")

\* C21 witness: a face centred at (211, 159) is announced as "middle left".
C21_Witness ==
  /\ OneFaceAnnounced /\ lastOp = "onFaceDetected"
  /\ Centre2 = <<422, 318>>
  /\ AnnouncedPosition = <<"middle", "left">>

\* C22: without speech synthesis in the browser no task calls speak() or
\* cancel(), nothing is handed to the speech collaborator, isSpeaking stays
\* false, and the manual describe and stop operations cannot be started
\* (their buttons are disabled or not rendered).
C22_UnsupportedIsSilent ==
  ~speechApi =>
    /\ ~speechSupported /\ ~isSpeaking
    /\ ~speakCalled /\ cancelled = 0
    /\ utterances = <<>> /\ staleCallbacks = 0
    /\ ~DescribeAllowed
    /\ lastOp \notin {"speakDetailedDescription", "stopSpeaking"}

\* C22 witness: without speech synthesis a batch with a new face count has
\* gone through the narration effect (lastFaceCount follows it) in silence.
C22_Witness ==
  /\ ~speechApi /\ voiceEnabled /\ lastOp = "onFaceDetected"
  /\ Len(faces) = 2 /\ lastFaceCount = 2
  /\ ~speakCalled /\ currentDescription = NoText

SkipOps == {"detectFaces: not ready", "detectFaces: throttled"}

\* C24: a frame callback that finds the source not ready, or that comes less
\* than 67 ms after the last accepted detection, calls neither the detector
\* nor onFaceDetected, leaves lastDetectionTime, the frame-rate counter, the
\* face count and the overlay as they were, and leaves its chain with one
\* scheduled callback; a callback is accepted only from a ready source and
\* at least 67 ms after the last accepted one.
C24_SkippedCallback ==
  [][/\ lastOp' \in SkipOps
        => /\ ~videoReady \/ now - lastDetectionTime < MinInterval
           /\ ~estimateCalled' /\ ~batchDelivered'
           /\ UNCHANGED <<lastDetectionTime, lastTimeRef, fpsCounterRef, fps, faceCount,
                          faces, detectionCount, overlay, canvasSized>>
           /\ Scheduled' = Scheduled /\ InFlight' = InFlight
           /\ animationFrameRef' \in Scheduled'
     /\ lastOp' = "detectFaces: accepted"
        => videoReady /\ now - lastDetectionTime >= MinInterval]_vars

\* C24 witness: a callback was throttled 33 ms after an accepted detection
\* whose face is still on the overlay.
C24_Witness ==
  /\ lastOp = "detectFaces: throttled"
  /\ acceptedCycles = 1 /\ now - lastDetectionTime = 33
  /\ faceCount = 1 /\ overlay # <<>>
  /\ Scheduled # {} /\ ~estimateCalled

\* The stream is on, the model is loaded and the source is ready.
Running == isStreaming /\ model /\ VideoMounted /\ srcObject /\ videoReady

\* From this time on the clock still passes a full throttle interval.
LiveHorizon == MaxLiveTime - MinInterval - 32

\* C25: whenever the stream is on with the model loaded and the source ready
\* and the clock has a throttle interval left to run, a detector call is
\* issued later on, unless the stream is stopped or the source stops being
\* ready first; this holds after rejected detector calls and after skipped
\* frames as well.
C25_LoopStaysAlive ==
  (Running /\ now <= LiveHorizon) ~> (estimateCalled \/ ~Running)

\* C25 witness: the second or a later detector call has been rejected, the
\* stream is still on and the clock has a throttle interval left to run.
C25_Witness ==
  /\ lastOp = "estimateFaces rejected" /\ Running /\ now <= LiveHorizon
  /\ acceptedCycles >= 2 /\ ~estimateCalled

\* The word for a coordinate c2 (twice the centre) in a frame of extent e,
\* split at 0.33 and 0.67 of it.
Third(c2, e, low, mid, high) ==
  IF 100 * c2 < 66 * e THEN low ELSE IF 100 * c2 > 134 * e THEN high ELSE mid

\* The label of a centre in a frame of size wh.
LabelIn(wh, c2) ==
  << Third(c2[2], wh[2], "upper", "middle", "lower"),
     Third(c2[1], wh[1], "left", "center", "right") >>

\* C26: whatever the resolution of the camera, the announced position is the
\* label of the box centre in a 640x480 frame, so that equal boxes get equal
\* labels in frames of different sizes.
C26_LabelIgnoresResolution ==
  \A size \in VideoSizes :
    (OneFaceAnnounced /\ videoSize = size)
      => AnnouncedPosition = LabelIn(<<FrameWidth, FrameHeight>>, Centre2)

\* C26 witness: in a 1280x720 frame a box centred at (640, 360), the middle
\* of that frame, is announced as "lower right".
C26_Witness ==
  /\ OneFaceAnnounced /\ videoSize = <<1280, 720>>
  /\ Centre2 = <<1280, 720>>
  /\ AnnouncedPosition = <<"lower", "right">>
  /\ LabelIn(videoSize, Centre2) = <<"middle", "center">>

\* C27: whenever no image is selected, detectedFaces is empty and
\* analysisComplete is false, including after a detectFacesInImage call that
\* was in flight when clearImage ran has settled.
C27_ClearedStaysCleared ==
  ~selectedImage => (detectedFaces = <<>> /\ ~analysisComplete)

\* The speech collaborator plays an utterance of the mounted component.
Playing ==
  /\ utterances # <<>>
  /\ utterances[1].st = "speaking" /\ utterances[1].live

\* C28: whenever the speech collaborator plays an utterance the narration
\* trigger dispatched, isSpeaking is true, in whatever order the end/error
\* callback of a cancelled utterance and the start callback of its
\* replacement arrive.
C28_PlayingImpliesSpeaking == Playing => isSpeaking

\* C29: while narration is switched off the speech collaborator holds no
\* utterance, pending or playing, and no task dispatches one.
C29_DisabledIsSilent ==
  ~voiceEnabled => (utterances = <<>> /\ ~speakCalled)

\* C30: lastTimeRef and lastDetectionTime always hold the same time, so a
\* cycle that publishes the frame rate does so from a delta of at least
\* 67 ms, and every published value is at most 15.
C30_RateAtMost15 ==
  /\ lastTimeRef = lastDetectionTime
  /\ fps <= 15
  /\ fpsPublished =>
       /\ Len(issued) = 2 /\ issued[2] - issued[1] >= MinInterval
       /\ fps * (issued[2] - issued[1]) <= 1000 + (issued[2] - issued[1]) \div 2

\* C30 witness: the sixteenth accepted cycle has published a rate of 15
\* from a delta of 68 ms, two frame periods.
C30_Witness ==
  /\ fpsPublished /\ acceptedCycles = 16
  /\ issued[2] - issued[1] = 68 /\ fps = 15

====
